---- MODULE Spec2Model ----
(***************************************************************************)
(* Model of src/simod_http_augemented/main.py: the file-backed job         *)
(* lifecycle of the Simod HTTP wrapper.                                    *)
(*                                                                         *)
(* Processes.  The three route handlers are async functions that run on    *)
(* the single event loop: between two awaits a handler is not interleaved  *)
(* with another handler.  run_simod_discovery is a plain function handed   *)
(* to BackgroundTasks, so it runs on a worker thread after the response    *)
(* has been sent, concurrently with every handler and with the runners of  *)
(* other submissions.                                                      *)
(*                                                                         *)
(* Storage.  One namespace directory per request id under                  *)
(* STORAGE_PATH/requests, holding request.json, the uploaded inputs and    *)
(* the output/ subtree.  save_request opens request.json with mode 'w'     *)
(* (which truncates it) and the buffered json.dump reaches the file when   *)
(* the with-block closes it, so the file is, in order: the old record,     *)
(* empty, the new record.                                                  *)
(***************************************************************************)
EXTENDS Integers, Sequences, FiniteSets, TLC

\* Number of POST /discoveries submissions in a run.
MaxSubs == 2

Subs == 1..MaxSubs
\* The values uuid4() is drawn from.
Ids == 1..MaxSubs
NoId == 0

None == <<>>
Some(x) == <<x>>

\* class RequestStatus(str, Enum): member names and their values.
UNKNOWN == "UNKNOWN"
ACCEPTED == "ACCEPTED"
RUNNING == "RUNNING"
SUCCESS == "SUCCESS"
FAILURE == "FAILURE"

\* member.value
StatusValue(m) ==
  CASE m = UNKNOWN -> "unknown"
    [] m = ACCEPTED -> "accepted"
    [] m = RUNNING -> "running"
    [] m = SUCCESS -> "success"
    [] m = FAILURE -> "failure"

\* RequestStatus(value)
RequestStatus(v) ==
  CASE v = "unknown" -> UNKNOWN
    [] v = "accepted" -> ACCEPTED
    [] v = "running" -> RUNNING
    [] v = "success" -> SUCCESS
    [] v = "failure" -> FAILURE

ArchiveToken == "results.tar.gz"
\* The file names a client asks GET /discoveries/{id}/{file_name} for.
ArtifactNames == {"model.bpmn", ArchiveToken}

\* What one run of the external tool leaves under the output directory:
\* nothing, best_result/model.bpmn, or model.bpmn in the output root.
ToolOutputs ==
  { [best |-> FALSE, bestFiles |-> {}, rootFiles |-> {}],
    [best |-> TRUE, bestFiles |-> {"model.bpmn"}, rootFiles |-> {}],
    [best |-> FALSE, bestFiles |-> {}, rootFiles |-> {"model.bpmn"}] }
ExitCodes == {0, 1}
NoExit == -1

\* Number of archive requests that can be inside read_discovery_file at once.
MaxRequests == 2
Handlers == 1..MaxRequests

VARIABLES
  dir,        \* dir[id]: STORAGE_PATH/requests/<id> exists
  file,       \* file[id]: content of requests/<id>/request.json
  inputs,     \* inputs[id]: uploaded input files in the namespace
  outDir,     \* outDir[id]: requests/<id>/output exists
  bestExists, \* bestExists[id]: output/best_result exists
  bestFiles,  \* bestFiles[id]: file names under output/best_result
  rootFiles,  \* rootFiles[id]: file names directly under output/
  sid,        \* sid[s]: request_id of submission s (NoId before uuid4())
  pc,         \* pc[s]: position of submission s (handler, then runner)
  req,        \* req[s]: the local variable `request` of submission s
  rc,         \* rc[s]: result.returncode of the tool run of submission s
  resp,       \* the last HTTP response sent
  archive,    \* archive[id]: content of output/results.tar.gz
  hpc,        \* hpc[h]: position of archive request h inside its handler
  hist        \* hist[id]: the statuses request.json of id has held, in order

vars == <<dir, file, inputs, outDir, bestExists, bestFiles, rootFiles,
          sid, pc, req, rc, resp, archive, hpc, hist>>

----------------------------------------------------------------------------
\* class DiscoveryRequest(BaseModel)
DiscoveryRequest(id, status, timestamp, output_dir) ==
  [id |-> id, status |-> status, timestamp |-> timestamp, output_dir |-> output_dir]

NoRequest == DiscoveryRequest(NoId, UNKNOWN, None, None)

\* STORAGE_PATH / 'requests' / request_id / 'output'
\* Line 108 with one output directory for all requests.
OutputDirShared(id) == [ns |-> 1, sub |-> "output"]

\* Line 108: STORAGE_PATH / 'requests' / request_id / 'output'
OutputDir(id) == [ns |-> id, sub |-> "output"]

\* pd.Timestamp.isoformat() and pd.Timestamp(text)
IsoFormat(t) == [iso |-> t]
ParseTimestamp(text) == text.iso

\* str(path) and Path(text)
PathStr(p) == [text |-> p]
ParsePath(text) == text.text

\* The dict json.dump writes.
DumpRequest(r) ==
  [id |-> r.id,
   status |-> StatusValue(r.status),
   timestamp |-> IF r.timestamp # None THEN Some(IsoFormat(r.timestamp[1])) ELSE None,
   output_dir |-> IF r.output_dir # None THEN Some(PathStr(r.output_dir[1])) ELSE None]

\* Lines 91-96 with a null output_dir read as the job's output directory.
ParseRequestDefaultOutput(data) ==
  DiscoveryRequest(
    data.id,
    RequestStatus(data.status),
    IF data.timestamp # None THEN Some(ParseTimestamp(data.timestamp[1])) ELSE None,
    IF data.output_dir # None THEN Some(ParsePath(data.output_dir[1]))
    ELSE Some(OutputDir(data.id)))

\* DiscoveryRequest(...) built from the dict json.load returns.
ParseRequest(data) ==
  DiscoveryRequest(
    data.id,
    RequestStatus(data.status),
    IF data.timestamp # None THEN Some(ParseTimestamp(data.timestamp[1])) ELSE None,
    IF data.output_dir # None THEN Some(ParsePath(data.output_dir[1])) ELSE None)

NoData == DumpRequest(NoRequest)
\* request.json: absent, truncated by open(..., 'w'), or holding a dict.
Missing == [state |-> "missing", data |-> NoData]
Truncated == [state |-> "empty", data |-> NoData]
Written(data) == [state |-> "json", data |-> data]

HasRecord(id) == file[id].state = "json"
\* The status value of the persisted record of id ("" when there is none).
Persisted(id) == IF HasRecord(id) THEN file[id].data.status ELSE ""

\* load_request answering a missing request directory with a fresh record
\* in place of lines 83-84.
LoadRequestDefault(id) ==
  IF ~dir[id] THEN [err |-> "", request |-> DiscoveryRequest(id, ACCEPTED, None, None)]
  ELSE IF file[id].state = "missing" THEN [err |-> "FileNotFoundError", request |-> NoRequest]
  ELSE IF file[id].state = "empty" THEN [err |-> "JSONDecodeError", request |-> NoRequest]
  ELSE [err |-> "", request |-> ParseRequest(file[id].data)]

\* load_request: the exception it raises ("" for none) and the value returned.
LoadRequest(id) ==
  IF ~dir[id] THEN [err |-> "FileNotFoundError", request |-> NoRequest]
  ELSE IF file[id].state = "missing" THEN [err |-> "FileNotFoundError", request |-> NoRequest]
  ELSE IF file[id].state = "empty" THEN [err |-> "JSONDecodeError", request |-> NoRequest]
  ELSE [err |-> "", request |-> ParseRequest(file[id].data)]

\* hist after request.json of id has come to hold data.
Record(id, data) ==
  IF hist[id] # <<>> /\ hist[id][Len(hist[id])] = data.status
  THEN hist
  ELSE [hist EXCEPT ![id] = Append(@, data.status)]

\* output/results.tar.gz: absent, opened for writing by make_archive, or
\* closed with its members.
NoArchive == [state |-> "absent", files |-> {}]
PartialArchive == [state |-> "partial", files |-> {}]
CompleteArchive(files) == [state |-> "complete", files |-> files]

\* An archive request: outside the handler, or inside it for job id.
Idle == [at |-> "idle", id |-> NoId]
Inside(at, id) == [at |-> at, id |-> id]

Init ==
  /\ dir = [i \in Ids |-> FALSE]
  /\ file = [i \in Ids |-> Missing]
  /\ inputs = [i \in Ids |-> {}]
  /\ outDir = [i \in Ids |-> FALSE]
  /\ bestExists = [i \in Ids |-> FALSE]
  /\ bestFiles = [i \in Ids |-> {}]
  /\ rootFiles = [i \in Ids |-> {}]
  /\ sid = [s \in Subs |-> NoId]
  /\ pc = [s \in Subs |-> "idle"]
  /\ req = [s \in Subs |-> NoRequest]
  /\ rc = [s \in Subs |-> NoExit]
  /\ resp = [op |-> "none", id |-> NoId, name |-> "", code |-> 0, status |-> "",
             archive_url |-> None, body |-> "", files |-> {}]
  /\ archive = [i \in Ids |-> NoArchive]
  /\ hpc = [h \in Handlers |-> Idle]
  /\ hist = [i \in Ids |-> <<>>]

----------------------------------------------------------------------------
(* POST /discoveries: create_discovery.                                     *)

\* The event loop is inside a handler section that holds no await: no other
\* handler starts before it ends.
\* Handlers that run on threads of their own: the loop is never held.
LoopBusyNever == FALSE

\* A handler is between two awaits and holds the event loop: save_request of
\* create_discovery, or read_discovery_file inside the archive branch.
LoopBusy ==
  \/ \E s \in Subs : pc[s] = "opened"
  \/ \E h \in Handlers : hpc[h].at # "idle"

\* Lines 170-173 creating the request as already running.
NewRequestRunning(id) == DiscoveryRequest(id, RUNNING, None, None)

\* DiscoveryRequest(id=request_id, status=RequestStatus.ACCEPTED)
NewRequest(id) == DiscoveryRequest(id, ACCEPTED, None, None)

\* The input files written into the namespace.
InputFiles(hasConfig) ==
  IF hasConfig THEN {"event_log", "configuration"} ELSE {"event_log"}

\* The uploads: every second submission comes with a configuration file, the
\* others with the event log alone.
HasConfiguration(s) == s % 2 = 0

\* uuid4() as its contract has it: an id no namespace exists for.  Ids are
\* opaque, so the unused id taken is the first one.
FreshIds == {i \in Ids : ~dir[i] /\ \A j \in Ids : j < i => dir[j]}

\* Lines 169-194: the id, the namespace directory and the uploaded inputs,
\* up to the last await of the handler.  Submission s is the s-th to arrive.
Create(s, id, hasConfig) ==
  /\ pc[s] = "idle"
  /\ \A t \in Subs : t < s => pc[t] # "idle"
  /\ ~LoopBusy
  /\ sid' = [sid EXCEPT ![s] = id]
  /\ req' = [req EXCEPT ![s] = NewRequest(id)]
  /\ dir' = [dir EXCEPT ![id] = TRUE]
  /\ inputs' = [inputs EXCEPT ![id] = InputFiles(hasConfig)]
  /\ pc' = [pc EXCEPT ![s] = "created"]
  /\ UNCHANGED <<file, outDir, bestExists, bestFiles, rootFiles, rc, resp, hist, archive, hpc>>

SubmitCreate(s) ==
  \E id \in FreshIds : Create(s, id, HasConfiguration(s))

\* The same with uuid4() returning an id that may already be in use.
SubmitCreateAny(s) ==
  \E id \in Ids : Create(s, id, HasConfiguration(s))

\* Line 197, save_request up to open(..., 'w').
SubmitSaveOpen(s) ==
  /\ pc[s] = "created"
  /\ ~LoopBusy
  /\ dir' = [dir EXCEPT ![sid[s]] = TRUE]
  /\ file' = [file EXCEPT ![sid[s]] = Truncated]
  /\ pc' = [pc EXCEPT ![s] = "opened"]
  /\ UNCHANGED <<inputs, outDir, bestExists, bestFiles, rootFiles, sid, req, rc, resp, hist, archive, hpc>>

\* The response built as if the background task had already started.
SubmitResponseRunning(r) ==
  [op |-> "submit", id |-> r.id, name |-> "", code |-> 202,
   status |-> StatusValue(RUNNING), archive_url |-> None, body |-> "json", files |-> {}]

\* DiscoveryResponse(request_id, request_status=request.status), status 202.
SubmitResponse(r) ==
  [op |-> "submit", id |-> r.id, name |-> "", code |-> 202,
   status |-> StatusValue(r.status), archive_url |-> None, body |-> "json", files |-> {}]

\* Lines 72-77 and 200-215: the record is written, the background task is
\* added and the response returned; the task starts once the response is sent.
SubmitFinish(s) ==
  /\ pc[s] = "opened"
  /\ file' = [file EXCEPT ![sid[s]] = Written(DumpRequest(req[s]))]
  /\ hist' = Record(sid[s], DumpRequest(req[s]))
  /\ resp' = SubmitResponse(req[s])
  /\ pc' = [pc EXCEPT ![s] = "load1"]
  /\ UNCHANGED <<dir, inputs, outDir, bestExists, bestFiles, rootFiles, sid, req, rc, archive, hpc>>

----------------------------------------------------------------------------
(* run_simod_discovery, one worker thread per submission.  Every store      *)
(* operation and the spawn of the tool can fail with an I/O error           *)
(* (io = TRUE), besides the errors the state of the files causes.           *)

MainPcs == {"load1", "save1", "save1w", "spawn", "tool", "load2", "save2", "save2w"}
HandlerPcs == {"h_load", "h_save", "h_savew"}

\* Line 146: except Exception, entering the handler.
OnError == "h_load"
\* Lines 153-154 raising again after the log.
OnSaveErrorRaise == "raised"

\* Lines 153-154: except Exception as save_error, logged.
OnSaveError == "swallowed"

\* Lines 104-105.
\* Lines 104-105 without line 104.
RunningRequestKeepsStatus(r, t) == [r EXCEPT !.timestamp = Some(t)]

\* Lines 104-105.
RunningRequest(r, t) == [r EXCEPT !.status = RUNNING, !.timestamp = Some(t)]

\* Lines 136-143 with a nonzero exit putting the job back to accepted.
TerminalRequestRegress(r, code, output_dir, t) ==
  IF code = 0
  THEN [r EXCEPT !.status = SUCCESS, !.output_dir = Some(output_dir), !.timestamp = Some(t)]
  ELSE [r EXCEPT !.status = ACCEPTED, !.timestamp = Some(t)]

\* Lines 136-143 with request.output_dir assigned before the test of the code.
TerminalRequestAlwaysOutput(r, code, output_dir, t) ==
  IF code = 0
  THEN [r EXCEPT !.status = SUCCESS, !.output_dir = Some(output_dir), !.timestamp = Some(t)]
  ELSE [r EXCEPT !.status = FAILURE, !.output_dir = Some(output_dir), !.timestamp = Some(t)]

\* Lines 136-143 without line 143.
TerminalRequestStaleTime(r, code, output_dir, t) ==
  IF code = 0
  THEN [r EXCEPT !.status = SUCCESS, !.output_dir = Some(output_dir)]
  ELSE [r EXCEPT !.status = FAILURE]

\* Lines 136-143.
TerminalRequest(r, code, output_dir, t) ==
  IF code = 0
  THEN [r EXCEPT !.status = SUCCESS, !.output_dir = Some(output_dir), !.timestamp = Some(t)]
  ELSE [r EXCEPT !.status = FAILURE, !.timestamp = Some(t)]

\* Lines 150-151 without line 150.
FailureRequestKeepsStatus(r, t) == [r EXCEPT !.timestamp = Some(t)]

\* Lines 150-151 without line 151.
FailureRequestStaleTime(r, t) == [r EXCEPT !.status = FAILURE]

\* Lines 150-151.
FailureRequest(r, t) == [r EXCEPT !.status = FAILURE, !.timestamp = Some(t)]

\* pd.Timestamp.now() at lines 105, 143 and 151: the readings of one thread
\* increase, and each is named by its place in that order.
Now(at) ==
  CASE at = "load1" -> 1
    [] at = "load2" -> 2
    [] at = "h_load" -> 3

\* The assignments to request that follow the load_request at each place.
Updated(s, at, r) ==
  CASE at = "load1" -> RunningRequest(r, Now(at))
    [] at = "load2" -> TerminalRequest(r, rc[s], OutputDir(sid[s]), Now(at))
    [] at = "h_load" -> FailureRequest(r, Now(at))

\* A load_request of the runner followed by the assignments to request.
Load(s, at, next, fail) ==
  /\ pc[s] = at
  /\ \E io \in BOOLEAN :
       LET l == LoadRequest(sid[s]) IN
       IF io \/ l.err # ""
       THEN /\ pc' = [pc EXCEPT ![s] = fail]
            /\ UNCHANGED req
       ELSE /\ req' = [req EXCEPT ![s] = Updated(s, at, l.request)]
            /\ pc' = [pc EXCEPT ![s] = next]
  /\ UNCHANGED <<dir, file, inputs, outDir, bestExists, bestFiles, rootFiles, sid, rc, resp, hist, archive, hpc>>

\* save_request up to open(..., 'w'): mkdir, then the file is truncated.
SaveOpen(s, at, next, fail) ==
  /\ pc[s] = at
  /\ \E io \in BOOLEAN :
       IF io
       THEN /\ pc' = [pc EXCEPT ![s] = fail]
            /\ UNCHANGED <<dir, file>>
       ELSE /\ dir' = [dir EXCEPT ![req[s].id] = TRUE]
            /\ file' = [file EXCEPT ![req[s].id] = Truncated]
            /\ pc' = [pc EXCEPT ![s] = next]
  /\ UNCHANGED <<inputs, outDir, bestExists, bestFiles, rootFiles, sid, req, rc, resp, hist, archive, hpc>>

\* json.dump and the close of the file: the record reaches the file, or the
\* write fails and leaves the file as open(..., 'w') left it.
SaveWrite(s, at, next, fail) ==
  /\ pc[s] = at
  /\ \E io \in BOOLEAN :
       IF io
       THEN /\ pc' = [pc EXCEPT ![s] = fail]
            /\ UNCHANGED <<file, hist>>
       ELSE /\ file' = [file EXCEPT ![req[s].id] = Written(DumpRequest(req[s]))]
            /\ hist' = Record(req[s].id, DumpRequest(req[s]))
            /\ pc' = [pc EXCEPT ![s] = next]
  /\ UNCHANGED <<dir, inputs, outDir, bestExists, bestFiles, rootFiles, sid, req, rc, resp, archive, hpc>>

\* Lines 103-105.
RunLoad(s) == Load(s, "load1", "save1", OnError)
\* Line 106.
RunSaveOpen(s) == SaveOpen(s, "save1", "save1w", OnError)
RunSaveWrite(s) == SaveWrite(s, "save1w", "spawn", OnError)

\* Lines 108-128: the output directory is made and the tool is started.
RunSpawn(s) ==
  /\ pc[s] = "spawn"
  /\ outDir' = [outDir EXCEPT ![OutputDir(sid[s]).ns] = TRUE]
  /\ \E io \in BOOLEAN :
       pc' = [pc EXCEPT ![s] = IF io THEN OnError ELSE "tool"]
  /\ UNCHANGED <<dir, file, inputs, bestExists, bestFiles, rootFiles, sid, req, rc, resp, hist, archive, hpc>>

\* The tool writes under the directory --output names and exits;
\* subprocess.run returns.
ToolExit(s) ==
  /\ pc[s] = "tool"
  /\ \E out \in ToolOutputs, code \in ExitCodes :
       /\ bestExists' = [bestExists EXCEPT ![OutputDir(sid[s]).ns] = out.best]
       /\ bestFiles' = [bestFiles EXCEPT ![OutputDir(sid[s]).ns] = out.bestFiles]
       /\ rootFiles' = [rootFiles EXCEPT ![OutputDir(sid[s]).ns] = @ \cup out.rootFiles]
       /\ rc' = [rc EXCEPT ![s] = code]
  /\ pc' = [pc EXCEPT ![s] = "load2"]
  /\ UNCHANGED <<dir, file, inputs, outDir, sid, req, resp, hist, archive, hpc>>

\* Lines 135-143.
FinishLoad(s) == Load(s, "load2", "save2", OnError)
\* Line 144.
FinishSaveOpen(s) == SaveOpen(s, "save2", "save2w", OnError)
FinishSaveWrite(s) == SaveWrite(s, "save2w", "returned", OnError)

\* Lines 149-151.
HandlerLoad(s) == Load(s, "h_load", "h_save", OnSaveError)
\* Line 152.
HandlerSaveOpen(s) == SaveOpen(s, "h_save", "h_savew", OnSaveError)
HandlerSaveWrite(s) == SaveWrite(s, "h_savew", "handled", OnSaveError)

----------------------------------------------------------------------------
(* GET /discoveries/{request_id}: read_discovery.                           *)

\* path.exists() for an output directory and for its best_result.
OutputExists(p) == outDir[p.ns]
BestResultExists(p) == outDir[p.ns] /\ bestExists[p.ns]

ArchiveUrl(id) == [url |-> "results.tar.gz", of |-> id]

Response(op, id, name, code, status, archive_url, body, files) ==
  [op |-> op, id |-> id, name |-> name, code |-> code, status |-> status,
   archive_url |-> archive_url, body |-> body, files |-> files]

\* Lines 226-233.
\* Line 229 without the test of line 232.
ArchiveRefOnSuccess(id, r) ==
  IF r.status = SUCCESS /\ r.output_dir # None
  THEN Some(ArchiveUrl(id))
  ELSE None

\* Lines 229-233.
ArchiveRef(id, r) ==
  IF r.status = SUCCESS /\ r.output_dir # None /\ BestResultExists(r.output_dir[1])
  THEN Some(ArchiveUrl(id))
  ELSE None

\* The response of read_discovery in the current state.  FileNotFoundError
\* is caught (lines 240-248); any other exception of load_request leaves the
\* handler and the server answers 500.
ReadDiscovery(id) ==
  LET l == LoadRequest(id) IN
  IF l.err = "FileNotFoundError"
  THEN Response("status", id, "", 404, StatusValue(UNKNOWN), None, "json", {})
  ELSE IF l.err # ""
  THEN Response("status", id, "", 500, "", None, l.err, {})
  ELSE Response("status", id, "", 200, StatusValue(l.request.status),
                ArchiveRef(id, l.request), "json", {})

\* read_discovery saving the request it loaded: open(..., 'w') of save_request.
GetStatusSaves(id) ==
  /\ ~LoopBusy
  /\ resp' = ReadDiscovery(id)
  /\ file' = [file EXCEPT ![id] = IF LoadRequest(id).err = "" THEN Truncated ELSE @]
  /\ UNCHANGED <<dir, inputs, outDir, bestExists, bestFiles, rootFiles,
                 sid, pc, req, rc, hist, archive, hpc>>

GetStatus(id) ==
  /\ ~LoopBusy
  /\ resp' = ReadDiscovery(id)
  /\ UNCHANGED <<dir, file, inputs, outDir, bestExists, bestFiles, rootFiles,
                 sid, pc, req, rc, hist, archive, hpc>>

----------------------------------------------------------------------------
(* GET /discoveries/{request_id}/{file_name}: read_discovery_file.          *)

\* Line 259: the record names an output directory and it exists.
OutputUsable(r) == r.output_dir # None /\ OutputExists(r.output_dir[1])

NotFound(id, name, message) == Response("artifact", id, name, 404, "", None, message, {})

\* Line 276 with the whole output directory as root_dir.
ArchiveMembersWholeOutput(out) == bestFiles[out] \cup rootFiles[out]

\* Line 276: make_archive packages the files under best_result.
ArchiveMembers(out) == bestFiles[out]

\* The response of read_discovery_file when the handler runs in the current
\* state from its first line to its return.
ReadDiscoveryFile(id, name) ==
  LET l == LoadRequest(id) IN
  IF l.err = "FileNotFoundError" THEN NotFound(id, name, "Request not found")
  ELSE IF l.err # "" THEN Response("artifact", id, name, 500, "", None, l.err, {})
  ELSE IF ~OutputUsable(l.request) THEN NotFound(id, name, "Output not found")
  ELSE LET out == l.request.output_dir[1].ns IN
       IF name = ArchiveToken
       THEN IF ~BestResultExists(l.request.output_dir[1])
            THEN NotFound(id, name, "Results not found")
            ELSE Response("artifact", id, name, 200, "", None, "archive", ArchiveMembers(out))
       ELSE IF bestExists[out] /\ name \in bestFiles[out]
            THEN Response("artifact", id, name, 200, "", None, "best_result", {name})
            ELSE IF name \in rootFiles[out]
                 THEN Response("artifact", id, name, 200, "", None, "output", {name})
                 ELSE NotFound(id, name, "File not found")

\* Lines 275-276: make_archive writes output/results.tar.gz.
ArchiveWritten(id, r) ==
  IF r.body = "archive" THEN [rootFiles EXCEPT ![id] = @ \cup {ArchiveToken}] ELSE rootFiles

\* Every request that does not reach make_archive: lines 256-272 and 289-317.
GetArtifact(id, name) ==
  /\ ~LoopBusy
  /\ ReadDiscoveryFile(id, name).body # "archive"
  /\ resp' = ReadDiscoveryFile(id, name)
  /\ UNCHANGED <<dir, file, inputs, outDir, bestExists, bestFiles, rootFiles,
                 sid, pc, req, rc, hist, archive, hpc>>

\* Lines 256-276 of a request for the archive: the checks pass and
\* make_archive opens output/results.tar.gz for writing.  Request h is the
\* h-th that is inside the handler.
ArchiveOpen(h, id) ==
  /\ hpc[h].at = "idle"
  /\ \A g \in Handlers : g < h => hpc[g].at # "idle"
  /\ ~LoopBusy
  /\ ReadDiscoveryFile(id, ArchiveToken).body = "archive"
  /\ archive' = [archive EXCEPT ![id] = PartialArchive]
  /\ rootFiles' = ArchiveWritten(id, ReadDiscoveryFile(id, ArchiveToken))
  /\ hpc' = [hpc EXCEPT ![h] = Inside("writing", id)]
  /\ UNCHANGED <<dir, file, inputs, outDir, bestExists, bestFiles,
                 sid, pc, req, rc, resp, hist>>

\* Line 276: make_archive has added the members and closes the file.
ArchiveClose(h) ==
  /\ hpc[h].at = "writing"
  /\ archive' = [archive EXCEPT ![hpc[h].id] = CompleteArchive(ArchiveMembers(hpc[h].id))]
  /\ hpc' = [hpc EXCEPT ![h] = Inside("written", hpc[h].id)]
  /\ UNCHANGED <<dir, file, inputs, outDir, bestExists, bestFiles, rootFiles,
                 sid, pc, req, rc, resp, hist>>

\* The bytes read at lines 278-279, as a response.
ArchiveResponse(id, a) ==
  Response("artifact", id, ArchiveToken, 200, "", None,
           IF a.state = "complete" THEN "archive" ELSE "partial archive", a.files)

\* Lines 278-287: the archive file is read and returned.
ArchiveRead(h) ==
  /\ hpc[h].at = "written"
  /\ resp' = ArchiveResponse(hpc[h].id, archive[hpc[h].id])
  /\ hpc' = [hpc EXCEPT ![h] = Idle]
  /\ UNCHANGED <<dir, file, inputs, outDir, bestExists, bestFiles, rootFiles,
                 sid, pc, req, rc, archive, hist>>

GetArchive(h) ==
  \/ \E id \in Ids : ArchiveOpen(h, id)
  \/ ArchiveClose(h)
  \/ ArchiveRead(h)

----------------------------------------------------------------------------
Runner(s) ==
  \/ RunLoad(s)
  \/ RunSaveOpen(s)
  \/ RunSaveWrite(s)
  \/ RunSpawn(s)
  \/ FinishLoad(s)
  \/ FinishSaveOpen(s)
  \/ FinishSaveWrite(s)
  \/ HandlerLoad(s)
  \/ HandlerSaveOpen(s)
  \/ HandlerSaveWrite(s)

Next ==
  \/ \E s \in Subs : SubmitCreate(s)
  \/ \E s \in Subs : SubmitSaveOpen(s)
  \/ \E s \in Subs : SubmitFinish(s)
  \/ \E s \in Subs : Runner(s)
  \/ \E s \in Subs : ToolExit(s)
  \/ \E id \in Ids : GetStatus(id)
  \/ \E id \in Ids, name \in ArtifactNames : GetArtifact(id, name)
  \/ \E h \in Handlers : GetArchive(h)

Spec == Init /\ [][Next]_vars

\* The worker threads are scheduled fairly and the external tool terminates.
Fairness ==
  \A s \in Subs : WF_vars(Runner(s)) /\ WF_vars(ToolExit(s))

FairSpec == Init /\ [][Next]_vars /\ Fairness

\* uuid4() returning any id, one in use included.
NextCollide ==
  \/ \E s \in Subs : SubmitCreateAny(s)
  \/ \E s \in Subs : SubmitSaveOpen(s)
  \/ \E s \in Subs : SubmitFinish(s)
  \/ \E s \in Subs : Runner(s)
  \/ \E s \in Subs : ToolExit(s)
  \/ \E id \in Ids : GetStatus(id)
  \/ \E id \in Ids, name \in ArtifactNames : GetArtifact(id, name)
  \/ \E h \in Handlers : GetArchive(h)

SpecCollide == Init /\ [][NextCollide]_vars

----------------------------------------------------------------------------
(* Properties.                                                              *)

Terminal(v) == v \in {"success", "failure"}
Finished(s) == pc[s] \in {"returned", "handled", "swallowed"}
Dispatched(s) == pc[s] \in MainPcs \cup HandlerPcs \/ Finished(s)
\* The persisted record of submission s holds success or failure.
JobTerminal(s) == sid[s] # NoId /\ Terminal(Persisted(sid[s]))

\* Position of a status value in accepted, running, {success | failure}.
Rank(v) ==
  CASE v = "accepted" -> 1
    [] v = "running" -> 2
    [] v = "success" -> 3
    [] v = "failure" -> 3
    [] OTHER -> 0

IsLifecycle(h) == \A i \in 1..(Len(h) - 1) : Rank(h[i]) < Rank(h[i + 1])

\* C1: the statuses the persisted record of a job holds over time are a
\* subsequence of accepted, running, {success | failure}: the status never
\* moves back and never leaves success or failure; a status getStatus returns
\* is one the record has held.
C1_StatusMonotonic ==
  /\ \A id \in Ids : IsLifecycle(hist[id])
  /\ (resp.op = "status" /\ resp.code = 200) =>
       \E i \in 1..Len(hist[resp.id]) : hist[resp.id][i] = resp.status

C1_Witness ==
  \E id \in Ids :
    /\ hist[id] = <<"accepted", "running", "failure">>
    /\ resp.op = "status" /\ resp.id = id /\ resp.status = "failure"
    /\ \E s \in Subs : sid[s] = id /\ pc[s] = "returned"

\* C2: a load_request issued by a status or artifact query never reads a
\* truncated request.json: no query ends in a decoding fault.
C2_SaveAtomic == ~(resp.op \in {"status", "artifact"} /\ resp.body = "JSONDecodeError")

\* C3: the persisted record of a job names an output directory if and only
\* if its status is success.
C3_OutputIffSuccess ==
  \A id \in Ids :
    HasRecord(id) => (file[id].data.output_dir # None <=> file[id].data.status = "success")

C3_Witness ==
  \E s, t \in Subs :
    /\ pc[s] = "handled" /\ rc[s] = 0
    /\ Persisted(sid[s]) = "failure" /\ file[sid[s]].data.output_dir = None
    /\ pc[t] = "returned"
    /\ Persisted(sid[t]) = "success" /\ file[sid[t]].data.output_dir # None

\* A getStatus of id answered right after the submit response for id.
FirstStatus(id) ==
  /\ resp.op = "submit" /\ resp.id = id
  /\ resp'.op = "status" /\ resp'.id = id

\* C4 (as claimed): the getStatus issued right after submit has returned
\* returns accepted.
C4_FirstStatusAccepted ==
  [][\A id \in Ids : FirstStatus(id) => resp'.status = "accepted"]_vars

\* C4 (amended): the getStatus issued right after submit never answers
\* unknown; it returns accepted whenever the runner has not yet begun its
\* first save_request, and otherwise a status the record has held, or fails
\* on a record that is being rewritten.
C4_FirstStatusRace ==
  [][\A id \in Ids : FirstStatus(id) =>
       /\ resp'.code \in {200, 500}
       /\ resp'.code = 200 => resp'.status \in {"accepted", "running", "success", "failure"}
       /\ (\A s \in Subs : sid[s] = id => pc[s] \in {"load1", "save1"}) =>
            (resp'.code = 200 /\ resp'.status = "accepted")]_vars

C4_Witness ==
  \E s \in Subs :
    /\ pc[s] = "save1"
    /\ resp.op = "status" /\ resp.id = sid[s] /\ resp.status = "accepted"
    /\ \A t \in Subs : t # s => pc[t] = "idle"

\* C5: read_discovery_file returns content only for a job whose persisted
\* status is success and whose output directory exists.
C5_ContentOnlyOnSuccess ==
  /\ (resp.op = "artifact" /\ resp.code = 200) =>
       (Persisted(resp.id) = "success" /\ outDir[resp.id])
  /\ \A id \in Ids, name \in ArtifactNames :
       ReadDiscoveryFile(id, name).code = 200 => (Persisted(id) = "success" /\ outDir[id])

C5_Witness ==
  /\ resp.op = "artifact" /\ resp.code = 200
  /\ resp.body = "archive" /\ resp.files = {"model.bpmn"}
  /\ Persisted(resp.id) = "success"

\* C6: the runner never propagates a fault: every failure of the main path
\* enters the handler once, a handler whose load and save succeed leaves the
\* record at failure, and a handler that fails too still ends the runner
\* normally.
C6_RunnerSwallowsFaults ==
  /\ [](\A s \in Subs :
         /\ pc[s] # "raised"
         /\ pc[s] = "handled" => Persisted(sid[s]) = "failure")
  /\ [][\A s \in Subs :
         /\ (pc[s] \in MainPcs /\ pc'[s] \notin MainPcs \cup {"returned"}) => pc'[s] = "h_load"
         /\ (pc[s] \in HandlerPcs /\ pc'[s] \notin HandlerPcs) =>
              pc'[s] \in {"handled", "swallowed"}]_vars

C6_Witness ==
  \E s, t \in Subs :
    /\ pc[s] = "swallowed" /\ Persisted(sid[s]) = "running"
    /\ pc[t] = "handled" /\ Persisted(sid[t]) = "failure"

\* C7 (as claimed): every dispatched job eventually has a persisted status
\* of success or failure.
C7_EventuallyTerminal ==
  \A s \in Subs : Dispatched(s) ~> JobTerminal(s)

\* C7 (amended): every dispatched job eventually has a persisted status of
\* success or failure unless the fault handler's own attempt failed.
C7_TerminalUnlessSwallowed ==
  \A s \in Subs : Dispatched(s) ~> (JobTerminal(s) \/ pc[s] = "swallowed")

C7_Witness ==
  \E s \in Subs :
    /\ pc[s] = "handled" /\ rc[s] = NoExit
    /\ Persisted(sid[s]) = "failure"
    /\ hist[sid[s]] = <<"accepted", "running", "failure">>

\* C8: creating a job under an id that already has a record leaves that
\* record as it is: no step of create_discovery changes an existing record.
C8_CreateKeepsExisting ==
  [][\A s \in Subs :
       (pc[s] \in {"idle", "created", "opened"} /\ pc'[s] # pc[s]) =>
         \A id \in Ids : HasRecord(id) => file'[id] = file[id]]_vars

\* C9: when the tool exits with code zero and the try block completes, the
\* record holds success, the output directory under the job's namespace and
\* a timestamp other than the one written with running; a record that holds
\* success keeps it.
C9_SuccessOnZeroExit ==
  /\ [](\A s \in Subs : (pc[s] = "returned" /\ rc[s] = 0) =>
         /\ HasRecord(sid[s])
         /\ file[sid[s]].data.status = "success"
         /\ file[sid[s]].data.output_dir = Some(PathStr(OutputDir(sid[s])))
         /\ file[sid[s]].data.timestamp # None
         /\ file[sid[s]].data.timestamp # Some(IsoFormat(Now("load1"))))
  /\ [][\A id \in Ids : Persisted(id) = "success" => Persisted(id)' = "success"]_vars

C9_Witness ==
  \E s \in Subs :
    /\ pc[s] = "returned" /\ rc[s] = 0
    /\ Persisted(sid[s]) = "success"
    /\ resp.op = "status" /\ resp.id = sid[s] /\ resp.status = "success"

----------------------------------------------------------------------------
\* No submission has drawn this id.
NeverSubmitted(id) == \A s \in Subs : sid[s] # id

\* A step of read_discovery or read_discovery_file: no submission and no
\* background task moves.
QueryStep == pc' = pc /\ sid' = sid

\* The last response answers a status query on id.
Answered(op, id) == resp.op = op /\ resp.id = id

\* C11: for an id that was never submitted, the status query answers with
\* the status value unknown in a JSON body, every artifact query answers
\* 404, and no query creates the request directory or the record of that
\* id, so the same answers are given again.
C11_UnknownForNeverSubmitted ==
  /\ [](\A id \in Ids : NeverSubmitted(id) =>
          /\ ReadDiscovery(id).status = StatusValue(UNKNOWN)
          /\ ReadDiscovery(id).body = "json"
          /\ \A name \in ArtifactNames : ReadDiscoveryFile(id, name).code = 404
          /\ Answered("status", id) => resp = ReadDiscovery(id)
          /\ Answered("artifact", id) => resp.code = 404)
  /\ [][\A id \in Ids : (NeverSubmitted(id) /\ QueryStep) =>
          /\ ~dir'[id]
          /\ file'[id] = Missing
          /\ file[id] = Missing
          /\ ~outDir'[id]
          /\ archive'[id] = NoArchive]_vars

\* A never-submitted id was polled for its status while another job exists.
C11_Witness ==
  /\ NeverSubmitted(resp.id)
  /\ resp.op = "status"
  /\ resp.status = "unknown"
  /\ \E s \in Subs : Dispatched(s)

\* C12: a status response carries the archive reference exactly when the
\* persisted record holds success with an output directory and best_result
\* exists under that directory; accepted, running and failure jobs, and
\* success jobs without best_result, get none.
C12_ArchiveRefIffPackagable ==
  /\ \A id \in Ids : ReadDiscovery(id).code = 200 =>
        (ReadDiscovery(id).archive_url # None
           <=> /\ file[id].data.status = "success"
               /\ file[id].data.output_dir # None
               /\ outDir[id]
               /\ bestExists[id])
  /\ \A id \in Ids : ReadDiscovery(id).code # 200 => ReadDiscovery(id).archive_url = None
  /\ (resp.op = "status" /\ resp.archive_url # None) =>
        /\ resp.archive_url = Some(ArchiveUrl(resp.id))
        /\ Persisted(resp.id) = "success"
        /\ bestExists[resp.id]
  /\ (resp.op = "status" /\ resp.status \in {"accepted", "running", "failure", "unknown"}) =>
        resp.archive_url = None

\* A success job whose output directory has no best_result was polled.
C12_Witness ==
  /\ resp.op = "status"
  /\ resp.status = "success"
  /\ resp.archive_url = None
  /\ ~bestExists[resp.id]
  /\ outDir[resp.id]

C14_SubmitNeverWaits ==
  /\ [](resp.op = "submit" => resp.status = "accepted" /\ resp.code = 202)
  /\ [](\A s \in Subs : pc[s] = "opened" => ENABLED SubmitFinish(s))
  /\ [](\A s \in Subs : ~Dispatched(s) => rc[s] = NoExit /\ (sid[s] # NoId => ~outDir[sid[s]]))
  /\ [](\A s \in Subs : Dispatched(s) => hist[sid[s]][1] = "accepted")
  /\ [][\A s \in Subs :
          /\ (~Dispatched(s) /\ Dispatched(s)') =>
                /\ pc[s] = "opened"
                /\ pc'[s] = "load1"
                /\ Persisted(sid[s])' = "accepted"
                /\ resp' = [op |-> "submit", id |-> sid[s], name |-> "", code |-> 202,
                            status |-> "accepted", archive_url |-> None,
                            body |-> "json", files |-> {}]
          /\ Dispatched(s) => Dispatched(s)' /\ (pc'[s] = "load1" => pc[s] = "load1")
          /\ (pc'[s] = "tool" /\ pc[s] # "tool") => pc[s] = "spawn" /\ rc[s] = NoExit
          /\ rc[s] # NoExit => pc'[s] # "tool" /\ rc'[s] = rc[s]]_vars

\* The response of the second submission is returned while the tool of the
\* first is still running.
C14_Witness ==
  /\ resp.op = "submit"
  /\ \E s, u \in Subs :
       /\ resp.id = sid[s]
       /\ pc[s] = "load1"
       /\ u # s
       /\ pc[u] = "tool"

\* C15: a record holds success only right after running; the tool runs only
\* while the record holds running; failure follows accepted directly only
\* when the background task failed before the output directory was made and
\* the tool was started.
C15_NoSkipOfRunning ==
  \A s \in Subs : sid[s] # NoId =>
    LET h == hist[sid[s]] IN
    /\ \A i \in 1..Len(h) : h[i] = "success" => i > 1 /\ h[i - 1] = "running"
    /\ pc[s] = "tool" => Persisted(sid[s]) = "running"
    /\ (pc[s] = "tool" \/ rc[s] # NoExit) => (Len(h) >= 2 /\ h[2] = "running")
    /\ \A i \in 2..Len(h) : (h[i] = "failure" /\ h[i - 1] = "accepted") =>
          /\ ~outDir[sid[s]]
          /\ rc[s] = NoExit
          /\ pc[s] \in HandlerPcs \cup {"handled", "swallowed"}

\* The fault handler has taken a job from accepted to failure.
C15_Witness ==
  \E s \in Subs :
    /\ pc[s] = "handled"
    /\ hist[sid[s]] = <<"accepted", "failure">>

\* C16: archive requests for one job do not corrupt each other: the archive
\* a request reads back is the one it has just closed, holding the files of
\* best_result, every archive response is a complete archive, and no second
\* request is inside the handler while one is writing or reading.
C16_ArchiveRequestsComplete ==
  /\ (resp.op = "artifact" /\ resp.name = ArchiveToken /\ resp.code = 200) =>
        /\ resp.body = "archive"
        /\ resp.files = bestFiles[resp.id]
  /\ \A h \in Handlers : hpc[h].at = "written" =>
        archive[hpc[h].id] = CompleteArchive(bestFiles[hpc[h].id])
  /\ \A h \in Handlers : hpc[h].at = "writing" => archive[hpc[h].id] = PartialArchive
  /\ \A g, h \in Handlers : (hpc[g].at # "idle" /\ hpc[h].at # "idle") => g = h

\* A request is overwriting the archive that an earlier request for the same
\* job wrote and returned.
C16_Witness ==
  /\ resp.op = "artifact"
  /\ resp.body = "archive"
  /\ \E h \in Handlers : hpc[h] = Inside("writing", resp.id)
  /\ archive[resp.id] = PartialArchive

\* The files of job id outside its record.
OutputFiles(id) == <<outDir[id], bestExists[id], bestFiles[id], rootFiles[id], archive[id]>>

\* C17: once the record of a job is terminal, no step of a status or
\* artifact query creates, overwrites or removes a file under the job's
\* output directory.
C17_OutputReadOnlyToQueries ==
  [][\A s \in Subs : (JobTerminal(s) /\ QueryStep) =>
       OutputFiles(sid[s])' = OutputFiles(sid[s])]_vars

\* C18: no step of a status or artifact query changes any record; a step of
\* a submission changes no record but that of the job it creates; a record
\* changes only in a step of the submission or background task of its job.
C18_RecordWrittenByOwnerOnly ==
  [][/\ QueryStep => file' = file /\ hist' = hist
     /\ \A s \in Subs : (pc[s] \in {"idle", "created", "opened"} /\ pc'[s] # pc[s]) =>
          \A id \in Ids \ {sid'[s]} : file'[id] = file[id]
     /\ \A id \in Ids : file'[id] # file[id] =>
          \E s \in Subs : sid'[s] = id /\ pc'[s] # pc[s]]_vars

\* A status query was answered for a job whose record holds running.
C18_Witness ==
  /\ resp.op = "status"
  /\ resp.status = "running"
  /\ Persisted(resp.id) = "running"
  /\ \E s \in Subs : sid[s] = resp.id /\ pc[s] = "tool"

\* Everything job id owns on disk.
JobFiles(id) == <<dir[id], file[id], inputs[id], OutputFiles(id)>>

\* C19: for distinct ids A and B, no step of A's submission or background
\* task (fault handler included) and no query on A changes B's record,
\* input files or output directory.
C19_JobsIsolated ==
  [][/\ \A s \in Subs : pc'[s] # pc[s] =>
          \A id \in Ids \ {sid'[s]} : JobFiles(id)' = JobFiles(id)
     /\ (QueryStep /\ resp' # resp) =>
          \A id \in Ids \ {resp'.id} : JobFiles(id)' = JobFiles(id)
     /\ \A h \in Handlers : hpc'[h] # hpc[h] =>
          \A id \in Ids \ {hpc[h].id, hpc'[h].id} : JobFiles(id)' = JobFiles(id)]_vars

\* The tool of one job runs while the fault handler of another job is
\* saving.
C19_Witness ==
  \E s, u \in Subs :
    /\ s # u
    /\ pc[s] = "tool"
    /\ pc[u] = "h_savew"
    /\ Persisted(sid[s]) = "running"

\* The reading of the clock taken at a place of run_simod_discovery, as the
\* record stores it.
Stamp(at) == Some(IsoFormat(Now(at)))

\* C20: an accepted record has no timestamp; a running, success or failure
\* record has the reading of the clock taken for the save that wrote that
\* status: line 105 for running, line 143 for success and for failure on a
\* nonzero exit, line 151 for failure in the fault handler.
C20_TimestampSetWithStatus ==
  \A id \in Ids : HasRecord(id) =>
    LET d == file[id].data IN
    /\ d.status = "accepted" <=> d.timestamp = None
    /\ d.status = "running" => d.timestamp = Stamp("load1")
    /\ d.status = "success" => d.timestamp = Stamp("load2")
    /\ d.status = "failure" => d.timestamp \in {Stamp("load2"), Stamp("h_load")}
    /\ (d.status = "failure" /\ d.timestamp = Stamp("load2")) =>
          \E s \in Subs : sid[s] = id /\ rc[s] \in ExitCodes \ {0}

\* The fault handler has written failure over a running record.
C20_Witness ==
  \E s \in Subs :
    /\ pc[s] = "handled"
    /\ hist[sid[s]] = <<"accepted", "running", "failure">>
    /\ file[sid[s]].data.timestamp = Stamp("h_load")

====
